---- MODULE Spec2Model ----
(***************************************************************************)
(* The snake game of src/snake.py (fixed window) and src/snake_game.py     *)
(* (fullscreen variant): Snake, Food and the Game controller, with one     *)
(* action per pygame event handled by Game._handle_events and one action   *)
(* for Game._update_game.                                                  *)
(***************************************************************************)
EXTENDS Integers, Sequences, FiniteSets, TLC

\* Grid of the fixed window of snake.py (WINDOW_WIDTH // GRID_SIZE by
\* WINDOW_HEIGHT // GRID_SIZE), in cells.
GridW == 3
GridH == 2
\* Grid of the desktop in the fullscreen mode of snake_game.py
\* (screen.get_size() // GRID_SIZE), in cells.
FullW == 2
FullH == 2
\* Grid of the windowed mode of snake_game.py ((800, 600) // GRID_SIZE), in cells.
WinW == 2
WinH == 1

VARIABLES
    variant,     \* "fixed" (snake.py) or "fullscreen" (snake_game.py)
    fullscreen,  \* Game.fullscreen (snake_game.py)
    GRID_W,      \* Game.GRID_W
    GRID_H,      \* Game.GRID_H
    state,       \* Game.state
    score,       \* Game.score
    snake,       \* Game.snake: [body, direction, grow_pending, grid_w, grid_h]
    food,        \* Game.food: [position, grid_w, grid_h]
    pc,          \* where Game.run stands
    hist,        \* history of the last operation that created, started or moved the snake:
                 \* op ("init", "start", "restart", "toggle", "move"), the score before it, and the
                 \* snake and food position before it (for a move) or as it made them,
                 \* and the value of idle before it
    cmd,         \* history: the last direction command a session received before the
                 \* first move of its snake ("NONE" when there was none, and after it)
    dropped,     \* whether the list of pygame.event.get() still held a quit event
                 \* (pygame.QUIT or K_ESCAPE) when _handle_events returned after K_F11
    idle         \* history: the last thing handled in GAME_OVER since it was entered,
                 \* "tick" (an _update_game) or "key" (a direction key), else "none"

vars == <<variant, fullscreen, GRID_W, GRID_H, state, score, snake, food, pc, hist, cmd,
          dropped, idle>>

GameState == {"INSTRUCTIONS", "PLAYING", "GAME_OVER"}

Direction == {"UP", "DOWN", "LEFT", "RIGHT"}

\* Direction.value
Delta(d) ==
    CASE d = "UP" -> <<0, -1>>
      [] d = "DOWN" -> <<0, 1>>
      [] d = "LEFT" -> <<-1, 0>>
      [] d = "RIGHT" -> <<1, 0>>

Keys == {"K_UP", "K_w", "K_DOWN", "K_s", "K_LEFT", "K_a", "K_RIGHT", "K_d",
         "K_SPACE", "K_r", "K_q", "K_ESCAPE", "K_F11"}

\* Snake.__init__
SnakeInit(start_x, start_y, grid_w, grid_h) ==
    [body |-> << <<start_x, start_y>> >>,
     direction |-> "RIGHT",
     grow_pending |-> FALSE,
     grid_w |-> grid_w,
     grid_h |-> grid_h]

\* Snake.move with the tail always removed and the flag cleared: growth is lost
MoveForgetsGrowth(s) ==
    LET head == s.body[1]
        new_head == <<head[1] + Delta(s.direction)[1], head[2] + Delta(s.direction)[2]>>
        inserted == <<new_head>> \o s.body
    IN  [s EXCEPT !.body = SubSeq(inserted, 1, Len(inserted) - 1), !.grow_pending = FALSE]

\* Snake.move with the tail never removed
MoveKeepsTail(s) ==
    LET head == s.body[1]
        new_head == <<head[1] + Delta(s.direction)[1], head[2] + Delta(s.direction)[2]>>
        inserted == <<new_head>> \o s.body
    IN  [s EXCEPT !.body = inserted, !.grow_pending = FALSE]

\* Snake.move with the old head removed in place of the tail
MovePopsNeck(s) ==
    LET head == s.body[1]
        new_head == <<head[1] + Delta(s.direction)[1], head[2] + Delta(s.direction)[2]>>
        inserted == <<new_head>> \o s.body
    IN  IF ~s.grow_pending
        THEN [s EXCEPT !.body = <<new_head>> \o Tail(s.body)]
        ELSE [s EXCEPT !.body = inserted, !.grow_pending = FALSE]

\* Snake.move
Move(s) ==
    LET head == s.body[1]
        new_head == <<head[1] + Delta(s.direction)[1], head[2] + Delta(s.direction)[2]>>
        inserted == <<new_head>> \o s.body
    IN  IF ~s.grow_pending
        THEN [s EXCEPT !.body = SubSeq(inserted, 1, Len(inserted) - 1)]
        ELSE [s EXCEPT !.body = inserted, !.grow_pending = FALSE]

\* Snake.change_direction with the reversal refused only when the body has more
\* than one cell
ChangeDirectionFreeWhenSingle(s, new_direction) ==
    IF /\ Len(s.body) > 1
       /\ \/ (s.direction = "UP" /\ new_direction = "DOWN")
          \/ (s.direction = "DOWN" /\ new_direction = "UP")
          \/ (s.direction = "LEFT" /\ new_direction = "RIGHT")
          \/ (s.direction = "RIGHT" /\ new_direction = "LEFT")
    THEN s
    ELSE [s EXCEPT !.direction = new_direction]

\* Snake.change_direction
ChangeDirection(s, new_direction) ==
    IF \/ (s.direction = "UP" /\ new_direction = "DOWN")
       \/ (s.direction = "DOWN" /\ new_direction = "UP")
       \/ (s.direction = "LEFT" /\ new_direction = "RIGHT")
       \/ (s.direction = "RIGHT" /\ new_direction = "LEFT")
    THEN s
    ELSE [s EXCEPT !.direction = new_direction]

\* Snake.grow that leaves the flag as it is
GrowForgets(s) == s

\* Snake.grow
Grow(s) == [s EXCEPT !.grow_pending = TRUE]

\* body[1:] of Snake.check_collision
Rest(body) == {body[i] : i \in 2..Len(body)}

\* Snake.check_collision with > for >= in the wall test
CheckCollisionOffByOne(s) ==
    LET head_x == s.body[1][1]
        head_y == s.body[1][2]
    IN  \/ head_x < 0 \/ head_x > s.grid_w \/ head_y < 0 \/ head_y > s.grid_h
        \/ s.body[1] \in Rest(s.body)

\* Snake.check_collision without the self collision test
CheckCollisionWallsOnly(s) ==
    LET head_x == s.body[1][1]
        head_y == s.body[1][2]
    IN  head_x < 0 \/ head_x >= s.grid_w \/ head_y < 0 \/ head_y >= s.grid_h

\* Snake.check_collision without the wall test
CheckCollisionSelfOnly(s) == s.body[1] \in Rest(s.body)

\* Snake.check_collision
CheckCollision(s) ==
    LET head_x == s.body[1][1]
        head_y == s.body[1][2]
    IN  \/ head_x < 0 \/ head_x >= s.grid_w \/ head_y < 0 \/ head_y >= s.grid_h
        \/ s.body[1] \in Rest(s.body)

\* Snake.get_positions
GetPositions(s) == s.body

\* Food._generate_position: the positions random.randint can draw
GeneratePosition(grid_w, grid_h) == (0..(grid_w - 1)) \X (0..(grid_h - 1))

\* Food.respawn without the test against the snake's positions
RespawnAnywhere(f, snake_positions) == GeneratePosition(f.grid_w, f.grid_h)

\* Food.respawn: the positions at which the loop can stop
Respawn(f, snake_positions) ==
    {p \in GeneratePosition(f.grid_w, f.grid_h) :
        \A i \in 1..Len(snake_positions) : snake_positions[i] # p}

\* Game._reset_game without the reset of the score
ResetGameKeepsScore(grid_w, grid_h) ==
    /\ snake' = SnakeInit(grid_w \div 2, grid_h \div 2, grid_w, grid_h)
    /\ \E p \in GeneratePosition(grid_w, grid_h) :
          food' = [position |-> p, grid_w |-> grid_w, grid_h |-> grid_h]
    /\ score' = score
    /\ state' = "PLAYING"

\* Game._reset_game
ResetGame(grid_w, grid_h) ==
    /\ snake' = SnakeInit(grid_w \div 2, grid_h \div 2, grid_w, grid_h)
    /\ \E p \in GeneratePosition(grid_w, grid_h) :
          food' = [position |-> p, grid_w |-> grid_w, grid_h |-> grid_h]
    /\ score' = 0
    /\ state' = "PLAYING"

\* The opposite of a direction (the four pairs of Snake.change_direction)
Opposite(d) ==
    CASE d = "UP" -> "DOWN"
      [] d = "DOWN" -> "UP"
      [] d = "LEFT" -> "RIGHT"
      [] d = "RIGHT" -> "LEFT"

\* Game._handle_game_input: the direction a key stands for
KeyDirection(key) ==
    CASE key \in {"K_UP", "K_w"} -> "UP"
      [] key \in {"K_DOWN", "K_s"} -> "DOWN"
      [] key \in {"K_LEFT", "K_a"} -> "LEFT"
      [] key \in {"K_RIGHT", "K_d"} -> "RIGHT"
      [] OTHER -> "NONE"

\* Game._handle_game_input
HandleGameInput(s, key) ==
    IF KeyDirection(key) \in Direction THEN ChangeDirection(s, KeyDirection(key)) ELSE s

\* Game.__init__: state is set to INSTRUCTIONS and then _reset_game runs
Init ==
    /\ variant \in {"fixed", "fullscreen"}
    /\ fullscreen = (variant = "fullscreen")
    /\ GRID_W = (IF variant = "fixed" THEN GridW ELSE FullW)
    /\ GRID_H = (IF variant = "fixed" THEN GridH ELSE FullH)
    /\ snake = SnakeInit(GRID_W \div 2, GRID_H \div 2, GRID_W, GRID_H)
    /\ \E p \in GeneratePosition(GRID_W, GRID_H) :
          food = [position |-> p, grid_w |-> GRID_W, grid_h |-> GRID_H]
    /\ score = 0
    /\ state = "PLAYING"
    /\ pc = "handle_events"
    /\ hist = [op |-> "init", score |-> 0, snake |-> snake, food |-> food.position,
               idle |-> "none"]
    /\ cmd = "NONE"
    /\ dropped = FALSE
    /\ idle = "none"

\* _handle_events: a pygame.QUIT event
QuitEvent ==
    /\ pc = "handle_events"
    /\ pc' = "exited"
    /\ UNCHANGED <<variant, fullscreen, GRID_W, GRID_H, state, score, snake, food, hist, cmd,
                   dropped, idle>>

\* Game._toggle_fullscreen with _reset_game using the grid dimensions of before
ToggleFullscreenStaleGrid ==
    LET w == IF ~fullscreen THEN FullW ELSE WinW
        h == IF ~fullscreen THEN FullH ELSE WinH
    IN  /\ fullscreen' = ~fullscreen
        /\ GRID_W' = w
        /\ GRID_H' = h
        /\ ResetGame(GRID_W, GRID_H)
        /\ pc' = "update_game"
        /\ hist' = [op |-> "toggle", score |-> score, snake |-> snake', food |-> food'.position,
                    idle |-> idle]
        /\ cmd' = "NONE"
        /\ idle' = "none"
        /\ dropped' \in BOOLEAN
        /\ UNCHANGED variant

\* Game._toggle_fullscreen, and the return that follows it in _handle_events: the
\* events that follow K_F11 in the list of pygame.event.get() are not handled
ToggleFullscreen ==
    LET w == IF ~fullscreen THEN FullW ELSE WinW
        h == IF ~fullscreen THEN FullH ELSE WinH
    IN  /\ fullscreen' = ~fullscreen
        /\ GRID_W' = w
        /\ GRID_H' = h
        /\ ResetGame(w, h)
        /\ pc' = "update_game"
        /\ hist' = [op |-> "toggle", score |-> score, snake |-> snake', food |-> food'.position,
                    idle |-> idle]
        /\ cmd' = "NONE"
        /\ idle' = "none"
        /\ dropped' \in BOOLEAN
        /\ UNCHANGED variant

\* The state branches of _handle_events with _handle_game_input called in
\* GAME_OVER too
KeyByStateUngated(key) ==
    CASE state = "INSTRUCTIONS" ->
            /\ state' = IF key = "K_SPACE" THEN "PLAYING" ELSE state
            /\ hist' = IF key = "K_SPACE" THEN [hist EXCEPT !.op = "start"] ELSE hist
            /\ UNCHANGED <<variant, fullscreen, GRID_W, GRID_H, score, snake, food, pc, cmd,
                           dropped, idle>>
      [] state = "PLAYING" ->
            /\ snake' = HandleGameInput(snake, key)
            /\ cmd' = IF KeyDirection(key) \in Direction /\ hist.op # "move"
                      THEN KeyDirection(key) ELSE cmd
            /\ UNCHANGED <<variant, fullscreen, GRID_W, GRID_H, state, score, food, pc, hist,
                           dropped, idle>>
      [] state = "GAME_OVER" ->
            IF key = "K_r"
            THEN /\ ResetGame(GRID_W, GRID_H)
                 /\ hist' = [op |-> "restart", score |-> score, snake |-> snake',
                             food |-> food'.position, idle |-> idle]
                 /\ cmd' = "NONE"
                 /\ idle' = "none"
                 /\ UNCHANGED <<variant, fullscreen, GRID_W, GRID_H, pc, dropped>>
            ELSE IF key = "K_q"
            THEN /\ pc' = "exited"
                 /\ UNCHANGED <<variant, fullscreen, GRID_W, GRID_H, state, score, snake, food,
                                hist, cmd, dropped, idle>>
            ELSE /\ idle' = IF KeyDirection(key) \in Direction THEN "key" ELSE idle
                 /\ snake' = HandleGameInput(snake, key)
                 /\ UNCHANGED <<variant, fullscreen, GRID_W, GRID_H, state, score, food,
                                pc, hist, cmd, dropped>>

\* _handle_events: the state branches of a pygame.KEYDOWN event
KeyByState(key) ==
    CASE state = "INSTRUCTIONS" ->
            /\ state' = IF key = "K_SPACE" THEN "PLAYING" ELSE state
            /\ hist' = IF key = "K_SPACE" THEN [hist EXCEPT !.op = "start"] ELSE hist
            /\ UNCHANGED <<variant, fullscreen, GRID_W, GRID_H, score, snake, food, pc, cmd,
                           dropped, idle>>
      [] state = "PLAYING" ->
            /\ snake' = HandleGameInput(snake, key)
            /\ cmd' = IF KeyDirection(key) \in Direction /\ hist.op # "move"
                      THEN KeyDirection(key) ELSE cmd
            /\ UNCHANGED <<variant, fullscreen, GRID_W, GRID_H, state, score, food, pc, hist,
                           dropped, idle>>
      [] state = "GAME_OVER" ->
            IF key = "K_r"
            THEN /\ ResetGame(GRID_W, GRID_H)
                 /\ hist' = [op |-> "restart", score |-> score, snake |-> snake',
                             food |-> food'.position, idle |-> idle]
                 /\ cmd' = "NONE"
                 /\ idle' = "none"
                 /\ UNCHANGED <<variant, fullscreen, GRID_W, GRID_H, pc, dropped>>
            ELSE IF key = "K_q"
            THEN /\ pc' = "exited"
                 /\ UNCHANGED <<variant, fullscreen, GRID_W, GRID_H, state, score, snake, food,
                                hist, cmd, dropped, idle>>
            ELSE /\ idle' = IF KeyDirection(key) \in Direction THEN "key" ELSE idle
                 /\ UNCHANGED <<variant, fullscreen, GRID_W, GRID_H, state, score, snake, food,
                                pc, hist, cmd, dropped>>

\* _handle_events: a pygame.KEYDOWN event
KeyDown(key) ==
    /\ pc = "handle_events"
    /\ IF variant = "fullscreen" /\ key = "K_ESCAPE"
       THEN /\ pc' = "exited"
            /\ UNCHANGED <<variant, fullscreen, GRID_W, GRID_H, state, score, snake, food,
                           hist, cmd, dropped, idle>>
       ELSE IF variant = "fullscreen" /\ key = "K_F11"
       THEN ToggleFullscreen
       ELSE KeyByState(key)

\* Game._update_game without the return when the state is not PLAYING
UpdateGameAnyState ==
    /\ pc \in {"handle_events", "update_game"}
    /\ dropped' = FALSE
    /\ UNCHANGED <<variant, fullscreen, GRID_W, GRID_H>>
    /\ LET moved == Move(snake)
       IN  /\ hist' = [op |-> "move", score |-> score, snake |-> snake,
                       food |-> food.position, idle |-> idle]
           /\ cmd' = "NONE"
           /\ idle' = "none"
           /\ IF CheckCollision(moved)
              THEN /\ snake' = moved
                   /\ state' = "GAME_OVER"
                   /\ pc' = "handle_events"
                   /\ UNCHANGED <<score, food>>
              ELSE IF moved.body[1] = food.position
              THEN /\ snake' = Grow(moved)
                   /\ score' = score + 1
                   /\ state' = state
                   /\ IF Respawn(food, GetPositions(moved)) # {}
                      THEN /\ \E p \in Respawn(food, GetPositions(moved)) :
                                  food' = [food EXCEPT !.position = p]
                           /\ pc' = "handle_events"
                      ELSE /\ \E p \in GeneratePosition(food.grid_w, food.grid_h) :
                                  food' = [food EXCEPT !.position = p]
                           /\ pc' = "respawn"
              ELSE /\ snake' = moved
                   /\ pc' = "handle_events"
                   /\ UNCHANGED <<state, score, food>>

\* Game._update_game with the score incremented by every move without collision
UpdateGameScoresEveryMove ==
    /\ pc \in {"handle_events", "update_game"}
    /\ dropped' = FALSE
    /\ UNCHANGED <<variant, fullscreen, GRID_W, GRID_H>>
    /\ IF state # "PLAYING"
       THEN /\ pc' = "handle_events"
            /\ idle' = IF state = "GAME_OVER" THEN "tick" ELSE idle
            /\ UNCHANGED <<state, score, snake, food, hist, cmd>>
       ELSE LET moved == Move(snake)
            IN  /\ hist' = [op |-> "move", score |-> score, snake |-> snake,
                            food |-> food.position, idle |-> idle]
                /\ cmd' = "NONE"
                /\ idle' = "none"
                /\ IF CheckCollision(moved)
                   THEN /\ snake' = moved
                        /\ state' = "GAME_OVER"
                        /\ pc' = "handle_events"
                        /\ UNCHANGED <<score, food>>
                   ELSE IF moved.body[1] = food.position
                   THEN /\ snake' = Grow(moved)
                        /\ score' = score + 1
                        /\ state' = state
                        /\ IF Respawn(food, GetPositions(moved)) # {}
                           THEN /\ \E p \in Respawn(food, GetPositions(moved)) :
                                       food' = [food EXCEPT !.position = p]
                                /\ pc' = "handle_events"
                           ELSE /\ \E p \in GeneratePosition(food.grid_w, food.grid_h) :
                                       food' = [food EXCEPT !.position = p]
                                /\ pc' = "respawn"
                   ELSE /\ snake' = moved
                        /\ pc' = "handle_events"
                        /\ score' = score + 1
                        /\ UNCHANGED <<state, food>>

\* Game._update_game, reached when _handle_events returns
UpdateGame ==
    /\ pc \in {"handle_events", "update_game"}
    /\ dropped' = FALSE
    /\ UNCHANGED <<variant, fullscreen, GRID_W, GRID_H>>
    /\ IF state # "PLAYING"
       THEN /\ pc' = "handle_events"
            /\ idle' = IF state = "GAME_OVER" THEN "tick" ELSE idle
            /\ UNCHANGED <<state, score, snake, food, hist, cmd>>
       ELSE LET moved == Move(snake)
            IN  /\ hist' = [op |-> "move", score |-> score, snake |-> snake,
                            food |-> food.position, idle |-> idle]
                /\ cmd' = "NONE"
                /\ idle' = "none"
                /\ IF CheckCollision(moved)
                   THEN /\ snake' = moved
                        /\ state' = "GAME_OVER"
                        /\ pc' = "handle_events"
                        /\ UNCHANGED <<score, food>>
                   ELSE IF moved.body[1] = food.position
                   THEN /\ snake' = Grow(moved)
                        /\ score' = score + 1
                        /\ state' = state
                        /\ IF Respawn(food, GetPositions(moved)) # {}
                           THEN /\ \E p \in Respawn(food, GetPositions(moved)) :
                                       food' = [food EXCEPT !.position = p]
                                /\ pc' = "handle_events"
                           ELSE /\ \E p \in GeneratePosition(food.grid_w, food.grid_h) :
                                       food' = [food EXCEPT !.position = p]
                                /\ pc' = "respawn"
                   ELSE /\ snake' = moved
                        /\ pc' = "handle_events"
                        /\ UNCHANGED <<state, score, food>>

\* Food.respawn: one more turn of the while loop when no position is free
RespawnLoop ==
    /\ pc = "respawn"
    /\ \E p \in GeneratePosition(food.grid_w, food.grid_h) :
          /\ food' = [food EXCEPT !.position = p]
          /\ pc' = IF \A i \in 1..Len(snake.body) : snake.body[i] # p
                   THEN "handle_events" ELSE "respawn"
    /\ UNCHANGED <<variant, fullscreen, GRID_W, GRID_H, state, score, snake, hist, cmd,
                   dropped, idle>>

Next ==
    \/ QuitEvent
    \/ \E key \in Keys : KeyDown(key)
    \/ UpdateGame
    \/ RespawnLoop

Spec == Init /\ [][Next]_vars

(***************************************************************************)
(* Vocabulary of the properties                                            *)
(***************************************************************************)

\* The cells a body occupies
Cells(body) == {body[i] : i \in 1..Len(body)}

\* The cells of the grid the snake is bounded by
GridCells == (0..(snake.grid_w - 1)) \X (0..(snake.grid_h - 1))

\* The grid cells the snake does not occupy
FreeCells == GridCells \ Cells(snake.body)

\* The last operation on the session was a move of _update_game: hist holds the
\* score, snake and food position the move started from
Moved == hist.op = "move"

\* The last move put the head on the food cell without a collision
Ate == Moved /\ state = "PLAYING" /\ snake.body[1] = hist.food

\* The tail cell of the body the last move started from
OldTail == hist.snake.body[Len(hist.snake.body)]

\* Whether a move in direction d would reverse the last move of a body of two
\* or more cells, that is, put the head back on the segment behind it
Reverses(body, d) ==
    /\ Len(body) > 1
    /\ body[2] = <<body[1][1] + Delta(d)[1], body[1][2] + Delta(d)[2]>>

(***************************************************************************)
(* C1: growth on the next move                                             *)
(***************************************************************************)

\* C1 as stated: a tick that eats food leaves the body length as it was before
\* the tick, and the tick after it makes the length exactly one greater than it
\* was before the eating tick. With the first half, "one greater than before
\* the eating tick" is "one greater than after it": hist.snake.grow_pending
\* says that the tick before the last move ate.
C1_GrowthOnNextMove ==
    /\ Ate => Len(snake.body) = Len(hist.snake.body)
    /\ (Moved /\ hist.snake.grow_pending) => Len(snake.body) = Len(hist.snake.body) + 1

\* C1 amended: growth is pending exactly after a tick that ate; a tick that eats
\* leaves the body length unchanged when no growth was pending before it and
\* makes it one greater when growth was pending (the tick before ate too); the
\* tick after an eating tick, whatever its direction and outcome, makes the body
\* exactly one cell longer than the eating tick left it.
C1_GrowthAmended ==
    /\ snake.grow_pending <=> Ate
    /\ Ate => Len(snake.body) = Len(hist.snake.body)
                                  + (IF hist.snake.grow_pending THEN 1 ELSE 0)
    /\ (Moved /\ hist.snake.grow_pending) => Len(snake.body) = Len(hist.snake.body) + 1
    /\ (Moved /\ ~hist.snake.grow_pending) => Len(snake.body) = Len(hist.snake.body)

\* Food eaten on two consecutive ticks: the second eating tick lengthens the body
C1_Witness ==
    /\ Ate
    /\ hist.snake.grow_pending
    /\ Len(snake.body) = Len(hist.snake.body) + 1

(***************************************************************************)
(* C2: the no-reversal rule of change_direction                            *)
(***************************************************************************)

\* C2 as stated: the opposite direction is refused when the body has more than
\* one cell and accepted when it has one; every other direction is accepted.
C2_NoReversalRule ==
    \A d \in Direction :
        LET r == ChangeDirection(snake, d)
        IN  /\ (d = Opposite(snake.direction) /\ Len(snake.body) > 1)
                 => r.direction = snake.direction
            /\ (d = Opposite(snake.direction) /\ Len(snake.body) = 1)
                 => r.direction = d
            /\ d # Opposite(snake.direction) => r.direction = d

\* C2 amended: the opposite of the current direction is refused whatever the
\* length of the body, a body of one cell included; every other direction is
\* accepted; change_direction changes nothing but the direction.
C2_NoReversalAnyLength ==
    \A d \in Direction :
        LET r == ChangeDirection(snake, d)
        IN  /\ d = Opposite(snake.direction) => r = snake
            /\ d # Opposite(snake.direction) => r = [snake EXCEPT !.direction = d]

\* A snake of one cell has received the opposite of its direction as the last
\* command and still has its direction
C2_Witness ==
    /\ state = "PLAYING"
    /\ Len(snake.body) = 1
    /\ cmd = Opposite(snake.direction)

(***************************************************************************)
(* C3: coalesced direction input                                           *)
(***************************************************************************)

\* C3, for bodies of two or more cells: of the direction commands received
\* between two ticks, each one that does not reverse the previous move becomes
\* the direction of the next move, and each one that reverses it is ignored; so
\* the next move uses the last command that is legal with respect to the
\* previous move, whatever commands came before it.
C3_CoalescedInput ==
    [][\A key \in Keys :
          (/\ state = "PLAYING" /\ Moved /\ Len(snake.body) > 1
           /\ KeyDirection(key) \in Direction
           /\ KeyDown(key)) =>
              snake'.direction = (IF Reverses(snake.body, KeyDirection(key))
                                  THEN snake.direction
                                  ELSE KeyDirection(key))]_vars

(***************************************************************************)
(* C4: no move onto the segment behind the head                            *)
(***************************************************************************)

\* C4: a move of a body of two or more cells never puts the new head on the cell
\* of the segment that was directly behind the head.
C4_NeverOntoNeck ==
    (Moved /\ Len(hist.snake.body) >= 2) => snake.body[1] # hist.snake.body[2]

(***************************************************************************)
(* C5: board-full termination                                              *)
(***************************************************************************)

\* C5: when a tick eats food and the body then occupies every cell of the grid,
\* the tick completes and leaves the controller in GAME_OVER.
C5_BoardFullEnds ==
    (Moved /\ score = hist.score + 1 /\ FreeCells = {}) =>
        (pc # "respawn" /\ state = "GAME_OVER")

(***************************************************************************)
(* C6: food exclusion on respawn                                           *)
(***************************************************************************)

\* C6: after a tick that ate food with at least one cell free, the food is in
\* the grid and on no cell of the body as the move left it; when exactly one
\* cell is free the food is on that cell.
C6_FoodExclusion ==
    (Moved /\ score = hist.score + 1 /\ FreeCells # {}) =>
        /\ food.position \in GridCells
        /\ food.position \notin Cells(snake.body)
        /\ \A c \in FreeCells : FreeCells = {c} => food.position = c
        /\ pc # "respawn"

\* A tick ate food with exactly one cell left free, and the food is on it
C6_Witness ==
    /\ Moved
    /\ score = hist.score + 1
    /\ Cardinality(FreeCells) = 1
    /\ food.position \in FreeCells

(***************************************************************************)
(* C7: food is off the snake between ticks                                 *)
(***************************************************************************)

\* C7: between ticks in PLAYING the food cell is not a cell of the body.
C7_FoodOffSnake ==
    (state = "PLAYING" /\ pc \in {"handle_events", "update_game"}) =>
        food.position \notin Cells(snake.body)

(***************************************************************************)
(* C8: wall collision ends the round                                       *)
(***************************************************************************)

\* C8: a move that puts the head outside the grid leaves GAME_OVER, the score
\* and the food cell as they were; a move whose head is in the grid and on no
\* other segment leaves PLAYING.
C8_WallCollision ==
    /\ (Moved /\ snake.body[1] \notin GridCells) =>
          /\ state = "GAME_OVER"
          /\ score = hist.score
          /\ food.position = hist.food
    /\ (Moved /\ snake.body[1] \in GridCells /\ snake.body[1] \notin Rest(snake.body)) =>
          state = "PLAYING"

\* A session that had scored ended on a wall
C8_Witness ==
    /\ Moved
    /\ snake.body[1] \notin GridCells
    /\ state = "GAME_OVER"
    /\ score > 0

(***************************************************************************)
(* C9: self collision is tested after the tail is trimmed                  *)
(***************************************************************************)

\* C9: after a move with the head in the grid, GAME_OVER is entered iff the head
\* is on a cell of the rest of the body as the move left it; a move without
\* growth onto the cell the tail leaves stays in PLAYING, and a move that
\* consumes the pending growth onto the tail cell enters GAME_OVER.
C9_SelfCollisionExact ==
    /\ (Moved /\ snake.body[1] \in GridCells) =>
          (state = "GAME_OVER" <=> snake.body[1] \in Rest(snake.body))
    /\ (Moved /\ ~hist.snake.grow_pending /\ snake.body[1] = OldTail) =>
          state = "PLAYING"
    /\ (Moved /\ hist.snake.grow_pending /\ snake.body[1] = OldTail) =>
          state = "GAME_OVER"

\* A snake of four or more cells moved its head onto the cell its tail left
C9_Witness ==
    /\ Moved
    /\ ~hist.snake.grow_pending
    /\ Len(snake.body) >= 4
    /\ snake.body[1] = OldTail
    /\ state = "PLAYING"

\* A move that consumed the pending growth ran into the tail it kept
C9_WitnessGrowing ==
    /\ Moved
    /\ hist.snake.grow_pending
    /\ snake.body[1] = OldTail
    /\ state = "GAME_OVER"

(***************************************************************************)
(* C10: restart                                                            *)
(***************************************************************************)

\* C10: after the restart command in GAME_OVER the state is PLAYING, the score
\* is 0, the body is the one cell at the centre of the grid, no growth is
\* pending, the food is a cell of the grid and, until a direction command
\* comes, the direction is RIGHT.
C10_Restart ==
    hist.op = "restart" =>
        /\ state = "PLAYING"
        /\ score = 0
        /\ snake.body = << <<GRID_W \div 2, GRID_H \div 2>> >>
        /\ ~snake.grow_pending
        /\ cmd = "NONE" => snake.direction = "RIGHT"
        /\ food.position \in GridCells
        /\ snake.grid_w = GRID_W /\ snake.grid_h = GRID_H

\* A session that had scored was restarted
C10_Witness ==
    /\ hist.op = "restart"
    /\ hist.score > 0
    /\ score = 0
    /\ cmd = "NONE"

(***************************************************************************)
(* C11: initial state and start                                            *)
(***************************************************************************)

\* C11: from construction until the start command the controller is in
\* INSTRUCTIONS; in INSTRUCTIONS the snake is as it was made, with no move and
\* no change of direction; PLAYING is entered from INSTRUCTIONS by the start
\* command only, so no session is in PLAYING or GAME_OVER with the construction
\* as the last operation on it.
C11_StartsInInstructions ==
    /\ hist.op = "init" => state = "INSTRUCTIONS"
    /\ state = "INSTRUCTIONS" => (hist.op = "init" /\ snake = hist.snake /\ score = 0)

(***************************************************************************)
(* C12: quit is never lost                                                 *)
(***************************************************************************)

\* C12: no quit event (pygame.QUIT, or K_ESCAPE in the fullscreen variant) of a
\* polled list of events is left unhandled when _handle_events returns and the
\* tick runs, whatever events precede it in the list; and once the loop has
\* exited nothing changes any more.
C12_QuitNeverLost ==
    /\ ~dropped
    /\ pc = "exited" => ~ENABLED Next

(***************************************************************************)
(* C13: resize restarts the session                                        *)
(***************************************************************************)

\* C13: after a fullscreen toggle, until the next move, the grid dimensions are
\* those of the new display mode, the state is PLAYING, the score is 0, the
\* snake is the single cell (GRID_W // 2, GRID_H // 2) and the snake cell and
\* the food cell are inside the new grid; and in every state the bounds the
\* snake and the food use are the current grid dimensions.
C13_ResizeRestarts ==
    /\ hist.op = "toggle" =>
          /\ variant = "fullscreen"
          /\ GRID_W = (IF fullscreen THEN FullW ELSE WinW)
          /\ GRID_H = (IF fullscreen THEN FullH ELSE WinH)
          /\ state = "PLAYING"
          /\ score = 0
          /\ snake.body = <<<<GRID_W \div 2, GRID_H \div 2>>>>
          /\ ~snake.grow_pending
          /\ Cells(snake.body) \subseteq (0..(GRID_W - 1)) \X (0..(GRID_H - 1))
          /\ food.position \in (0..(GRID_W - 1)) \X (0..(GRID_H - 1))
    /\ snake.grid_w = GRID_W /\ snake.grid_h = GRID_H
    /\ food.grid_w = GRID_W /\ food.grid_h = GRID_H

\* A session that had scored and ended was replaced by a toggle to the window
C13_Witness ==
    /\ hist.op = "toggle"
    /\ hist.score > 0
    /\ hist.idle = "tick"
    /\ ~fullscreen
    /\ GRID_H = WinH

(***************************************************************************)
(* C14: a tick is one move in PLAYING and a no-op otherwise                *)
(***************************************************************************)

\* C14: every step taken in GAME_OVER that stays in GAME_OVER, a tick or a key
\* event, leaves the snake (body and direction), the food and the score as they
\* were; GAME_OVER is left by a restart or a fullscreen toggle only; and a tick
\* in PLAYING changes the body by exactly one move of the snake.
C14_TickGating ==
    [][/\ (state = "GAME_OVER" /\ state' = "GAME_OVER") =>
             (snake' = snake /\ food' = food /\ score' = score)
       /\ (state = "GAME_OVER" /\ state' # "GAME_OVER") =>
             hist'.op \in {"restart", "toggle"}
       /\ (state = "PLAYING" /\ hist' # hist /\ hist'.op = "move") =>
             (hist'.snake = snake /\ snake'.body = Move(snake).body)]_vars

\* A tick has been applied in GAME_OVER to a session that had scored: the score
\* and the snake are still those the last move of the session left
C14_Witness ==
    /\ state = "GAME_OVER"
    /\ idle = "tick"
    /\ score > 0
    /\ score = hist.score
    /\ snake = Move(hist.snake)

(***************************************************************************)
(* C15: length invariant of a move without growth                          *)
(***************************************************************************)

\* C15: after a tick in PLAYING that ends in PLAYING, eats no food and started
\* with no growth pending, the body is as long as before the tick and is the
\* new head (old head + delta of the direction) followed by the old body
\* without its last cell.
C15_LengthInvariant ==
    (Moved /\ state = "PLAYING" /\ snake.body[1] # hist.food /\ ~hist.snake.grow_pending) =>
        LET old == hist.snake.body
            d == Delta(hist.snake.direction)
        IN  /\ Len(snake.body) = Len(old)
            /\ snake.body[1] = <<old[1][1] + d[1], old[1][2] + d[2]>>
            /\ \A i \in 2..Len(snake.body) : snake.body[i] = old[i - 1]

\* A body of three or more cells made a plain move
C15_Witness ==
    /\ Moved
    /\ state = "PLAYING"
    /\ snake.body[1] # hist.food
    /\ ~hist.snake.grow_pending
    /\ Len(snake.body) >= 3
    /\ snake.body[2] = hist.snake.body[1]
    /\ snake.body[3] = hist.snake.body[2]

(***************************************************************************)
(* C16: score accounting                                                   *)
(***************************************************************************)

\* C16: the score is 0 when a session is made and never negative; a tick whose
\* move puts the head on the food cell without a collision adds exactly 1 to
\* it, every other tick, a tick that ends in a collision with the head on the
\* food cell included, leaves it as it was; and no step but a restart or a
\* resize lowers it: key events between ticks leave it as the last tick left it.
C16_ScoreAccounting ==
    /\ score >= 0
    /\ hist.op \in {"init", "restart", "toggle"} => score = 0
    /\ Moved => score = hist.score +
                  (IF ~CheckCollision(snake) /\ snake.body[1] = hist.food THEN 1 ELSE 0)
    /\ (Moved /\ state = "GAME_OVER") => score = hist.score

\* A session scored its second point
C16_Witness ==
    /\ Ate
    /\ hist.score >= 1
    /\ score = hist.score + 1

(***************************************************************************)
(* C17: body adjacency                                                     *)
(***************************************************************************)

\* C17: in every state the body is not empty and every two consecutive cells
\* of it differ by exactly 1 in one coordinate and are equal in the other.
C17_BodyAdjacency ==
    /\ Len(snake.body) >= 1
    /\ \A i \in 1..(Len(snake.body) - 1) :
          LET ax == snake.body[i][1] - snake.body[i + 1][1]
              ay == snake.body[i][2] - snake.body[i + 1][2]
          IN  \/ (ax \in {-1, 1} /\ ay = 0)
              \/ (ax = 0 /\ ay \in {-1, 1})

\* A body of four or more cells with a bend, after a move that grew it
C17_Witness ==
    /\ Moved
    /\ hist.snake.grow_pending
    /\ Len(snake.body) >= 4
    /\ snake.body[1][1] # snake.body[3][1]
    /\ snake.body[1][2] # snake.body[3][2]

(***************************************************************************)
(* C18: growth is never lost or duplicated                                 *)
(***************************************************************************)

\* C18: in every state the body length plus one for a pending growth is the
\* score plus one.
C18_GrowthConserved ==
    Len(snake.body) + (IF snake.grow_pending THEN 1 ELSE 0) = score + 1

\* The move that consumed the growth pending from the second point of the
\* session ended in a collision
C18_Witness ==
    /\ Moved
    /\ hist.snake.grow_pending
    /\ state = "GAME_OVER"
    /\ score >= 2
    /\ Len(snake.body) = score + 1

(***************************************************************************)
(* C19: in PLAYING the body is inside the grid and does not overlap        *)
(***************************************************************************)

\* C19: in PLAYING every cell of the body is in the grid and no two cells of
\* the body are equal.
C19_BodyInGridDistinct ==
    state = "PLAYING" =>
        /\ \A i \in 1..Len(snake.body) :
              /\ snake.body[i][1] >= 0 /\ snake.body[i][1] < GRID_W
              /\ snake.body[i][2] >= 0 /\ snake.body[i][2] < GRID_H
        /\ \A i, j \in 1..Len(snake.body) : i # j => snake.body[i] # snake.body[j]

\* A body of four or more cells is in PLAYING after a move, its head at the
\* wall it is heading for
C19_Witness ==
    /\ state = "PLAYING"
    /\ Moved
    /\ Len(snake.body) >= 4
    /\ <<snake.body[1][1] + Delta(snake.direction)[1],
         snake.body[1][2] + Delta(snake.direction)[2]>> \notin GridCells

(***************************************************************************)
(* C20: commands are gated by the state                                    *)
(***************************************************************************)

\* C20: no step that changes the session (snake, food), the score, the state or
\* the position in the loop is a key event R or Q received in PLAYING, or a
\* direction key received in GAME_OVER: these keys have no effect there; and
\* the session a restart makes has a snake of direction RIGHT, whatever
\* direction keys were pressed in GAME_OVER before it.
C20_CommandsGated ==
    [][/\ (state = "PLAYING" /\ ~UNCHANGED <<state, score, snake, food, pc, hist>>) =>
             ~(KeyDown("K_r") \/ KeyDown("K_q"))
       /\ (state = "GAME_OVER" /\ ~UNCHANGED <<state, score, snake, food, pc, hist>>) =>
             ~(\E key \in Keys : KeyDirection(key) \in Direction /\ KeyDown(key))
       /\ (state = "GAME_OVER" /\ state' = "PLAYING" /\ hist'.op = "restart") =>
             snake'.direction = "RIGHT"]_vars

\* A restart followed a direction key pressed in GAME_OVER, and the snake it
\* made has the direction RIGHT with no direction key received since
C20_Witness ==
    /\ hist.op = "restart"
    /\ hist.idle = "key"
    /\ cmd = "NONE"
    /\ snake.direction = "RIGHT"
    /\ hist.snake.direction = "RIGHT"
====
